---- MODULE Spec2Model ----
(***************************************************************************)
(* A model of src/src/ast.hpp: the AST node classes of namespace exp, the  *)
(* constructors of the concrete node classes, and the tree composition     *)
(* operations add_child / merge_children / lift_children of AbstractNode.  *)
(*                                                                         *)
(* Nodes live on a heap (a sequence of records); a shared_ptr is an index  *)
(* into it and NULL is the empty shared_ptr.  Characters are their ASCII   *)
(* codes and a std::string is a sequence of codes.  assert() is active     *)
(* (the header never defines NDEBUG): a failed assertion aborts.           *)
(***************************************************************************)
EXTENDS Integers, Sequences, FiniteSets

VARIABLES heap,      \* the nodes constructed so far, in order of construction
          children,  \* children[n]: AbstractNode::_children of node n
          parent,    \* parent[n]: AbstractNode::_parent of node n (NULL if unset)
          pc,        \* "idle", "loop" (inside merge_children's for), "abort"
          call,      \* the merge_children call in progress
          last,      \* the operation that returned last (history)
          ctor_arg   \* ctor_arg[n]: the const char* node n was constructed from (history)

vars == <<heap, children, parent, pc, call, last, ctor_arg>>

NULL == 0

----------------------------------------------------------------------------
(* Bounds of the model.                                                    *)

\* the number of child-list entries the composition operations may create
MaxAttach == 4
\* the length of a list passed by value to merge_children
MaxSeq == 2
\* the number of nodes the constructors may create
MaxNodes == 4
\* the length of a const char* argument of IdentifierNode
MaxTok == 2
\* the length of a const char* argument of StringNode
MaxStrTok == 4
\* the number of nodes the lexical constructors may create
MaxLexNodes == 2

----------------------------------------------------------------------------
(* The class hierarchy.                                                    *)

\* the direct base class of each class of namespace exp
Base(class) ==
    CASE class = "DummyNode"         -> "AbstractNode"
      [] class = "ExprNode"          -> "DummyNode"
      [] class = "LeftValueExprNode" -> "ExprNode"
      [] class = "StmtNode"          -> "DummyNode"
      [] class = "IdentifierNode"    -> "LeftValueExprNode"
      [] class = "TypeNode"          -> "DummyNode"
      [] class = "SimpleTypeNode"    -> "TypeNode"
      [] class = "StringTypeNode"    -> "TypeNode"
      [] class = "ConstValueNode"    -> "ExprNode"
      [] class = "StringNode"        -> "ConstValueNode"
      [] class = "FuncExprNode"      -> "ExprNode"
      [] class = "SysRoutineNode"    -> "DummyNode"
      [] class = "SysCallNode"       -> "DummyNode"
      [] class = "ArgListNode"       -> "DummyNode"
      [] class = "RoutineCallNode"   -> "DummyNode"
      [] class = "RoutineNode"       -> "DummyNode"
      [] class = "ProgramNode"       -> "RoutineNode"
      [] class = "CompoundStmtNode"  -> "StmtNode"
      [] class = "ProcStmtNode"      -> "StmtNode"
      [] class = "StmtList"          -> "StmtNode"
      [] OTHER                       -> "none"

\* whether class is target or derives from it
RECURSIVE DerivesFrom(_, _)
DerivesFrom(class, target) ==
    IF class = target THEN TRUE
    ELSE IF class = "AbstractNode" \/ class = "none" THEN FALSE
    ELSE DerivesFrom(Base(class), target)

\* the classes that override should_have_children, with what they return
Overrides ==
    [IdentifierNode   |-> FALSE, SimpleTypeNode  |-> FALSE,
     StringTypeNode   |-> FALSE, ConstValueNode  |-> FALSE,
     FuncExprNode     |-> FALSE, SysRoutineNode  |-> FALSE,
     SysCallNode      |-> FALSE, ArgListNode     |-> TRUE,
     RoutineCallNode  |-> FALSE, RoutineNode     |-> TRUE,
     CompoundStmtNode |-> TRUE,  ProcStmtNode    |-> FALSE]

\* virtual dispatch of should_have_children: the most derived override, and
\* AbstractNode's "return true" when no class on the way overrides it
RECURSIVE should_have_children(_)
should_have_children(class) ==
    IF class \in DOMAIN Overrides THEN Overrides[class]
    ELSE IF class = "AbstractNode" THEN TRUE
    ELSE should_have_children(Base(class))

----------------------------------------------------------------------------
(* The heap.                                                               *)

Nodes == 1..Len(heap)

\* a node of the given class with every member default-initialised
NewNode(class) ==
    [class |-> class, type |-> NULL, name |-> <<>>, val |-> <<>>,
     tag |-> "UNDEFINED", func_call |-> NULL, proc_call |-> NULL,
     routine |-> NULL, args |-> NULL, identifier |-> NULL, rname |-> NULL]

\* an is_a_ptr_of that takes any non-null pointer
is_a_ptr_of_any(target, ptr) == ptr # NULL

\* dynamic_cast<NodeType *>(ptr.get()) != nullptr
is_a_ptr_of(target, ptr) ==
    IF ptr = NULL THEN FALSE ELSE DerivesFrom(heap[ptr].class, target)

\* no merge_children call: the value of call outside the loop, and of last
\* before any operation has returned
NoCall == [op |-> "none", self |-> NULL, arg |-> NULL, ref |-> NULL,
           lst |-> <<>>, it |-> 1, c0 |-> <<>>, s0 |-> <<>>, cnt |-> 0]

----------------------------------------------------------------------------
(* Tree composition.                                                       *)

Total == LET RECURSIVE Sum(_)
             Sum(n) == IF n = 0 THEN 0 ELSE Len(children[n]) + Sum(n - 1)
         IN Sum(Len(children))

\* a push at the wrong end of the list
push_front(list, e) == <<e>> \o list

\* std::list::push_back
push_back(list, e) == Append(list, e)

\* seq without its elements equal to e
Without(seq, e) == SelectSeq(seq, LAMBDA x : x # e)

\* an add_child that first takes the node out of its former parent's list
add_child_moving(p, c) ==
    [n \in DOMAIN children |->
        IF n = p THEN Append(Without(children[n], c), c)
        ELSE IF n = parent[c] THEN Without(children[n], c)
        ELSE children[n]]

\* this->_children.push_back(node)
add_child_children(p, c) == [children EXCEPT ![p] = push_back(@, c)]

\* node->parent() = this->shared_from_this()
add_child_parent(p, c) == [parent EXCEPT ![c] = p]

\* AbstractNode::add_child(node), both overloads
add_child(p, c) ==
    /\ pc = "idle"
    /\ Total < MaxAttach
    /\ children' = add_child_children(p, c)
    /\ parent' = add_child_parent(p, c)
    /\ last' = [NoCall EXCEPT !.op = "add_child", !.self = p, !.arg = c,
                              !.c0 = children[p], !.s0 = <<c>>, !.cnt = 1]
    /\ UNCHANGED <<heap, pc, call, ctor_arg>>

\* the list a merge_children call iterates: the caller's own list, or the
\* _children of node ref when the argument is a reference to it
CurList(cl) == IF cl.ref = NULL THEN cl.lst ELSE children[cl.ref]

\* entry of merge_children(children): the range-for starts at begin()
merge_children_enter(op, p, arg, ref, lst) ==
    LET cl == [NoCall EXCEPT !.op = op, !.self = p, !.arg = arg, !.ref = ref,
                             !.lst = lst, !.c0 = children[p]]
    IN /\ call' = [cl EXCEPT !.s0 = CurList(cl)]
       /\ pc' = "loop"
       /\ last' = NoCall
       /\ UNCHANGED <<heap, children, parent, ctor_arg>>

\* AbstractNode::merge_children(children), called with a list of the caller
\* (ref = NULL) or with a reference to the _children of node ref
merge_children(p, ref, lst) ==
    /\ pc = "idle"
    /\ ref # NULL => lst = <<>>
    /\ LET n == IF ref = NULL THEN Len(lst) ELSE Len(children[ref])
       IN Total + n <= MaxAttach
    /\ merge_children_enter("merge_children", p, NULL, ref, lst)

\* AbstractNode::lift_children(node): node->children() asserts that the
\* donor should have children, then merge_children runs on that reference
lift_children(p, d) ==
    /\ pc = "idle"
    /\ IF should_have_children(heap[d].class)
       THEN /\ Total + Len(children[d]) <= MaxAttach
            /\ merge_children_enter("lift_children", p, d, d, <<>>)
       ELSE /\ pc' = "abort"
            /\ last' = NoCall
            /\ UNCHANGED <<heap, children, parent, call, ctor_arg>>

\* one iteration of merge_children's for: it != end(), add_child(*it), ++it
merge_children_iter ==
    /\ pc = "loop"
    /\ call.it <= Len(CurList(call))
    /\ Total < MaxAttach
    /\ LET e == CurList(call)[call.it]
       IN /\ children' = add_child_children(call.self, e)
          /\ parent' = add_child_parent(call.self, e)
    /\ call' = [call EXCEPT !.it = @ + 1, !.cnt = @ + 1]
    /\ UNCHANGED <<heap, pc, last, ctor_arg>>

\* the end of merge_children's for: it == end(), the call returns
merge_children_return ==
    /\ pc = "loop"
    /\ call.it > Len(CurList(call))
    /\ pc' = "idle"
    /\ last' = call
    /\ call' = NoCall
    /\ UNCHANGED <<heap, children, parent, ctor_arg>>

\* AbstractNode::children(): the read accessor, defined when the assertion holds
children_of(n) == children[n]

----------------------------------------------------------------------------
(* The composition operations on a fixed set of constructed nodes.         *)

\* the nodes the composition operations work on: a compound statement, a
\* statement list, an identifier
TreeHeap ==
    << NewNode("CompoundStmtNode"), NewNode("StmtList"),
       [NewNode("IdentifierNode") EXCEPT !.name = <<120>>] >>

Lists == UNION {[1..k -> Nodes] : k \in 0..MaxSeq}

TreeInit ==
    /\ heap = TreeHeap
    /\ children = [n \in 1..Len(TreeHeap) |-> <<>>]
    /\ parent = [n \in 1..Len(TreeHeap) |-> NULL]
    /\ pc = "idle"
    /\ call = NoCall
    /\ last = NoCall
    /\ ctor_arg = [n \in 1..Len(TreeHeap) |-> <<>>]

TreeNext ==
    \/ \E p \in Nodes, c \in Nodes : add_child(p, c)
    \/ \E p \in Nodes, lst \in Lists : merge_children(p, NULL, lst)
    \/ \E p \in Nodes, q \in Nodes : merge_children(p, q, <<>>)
    \/ \E p \in Nodes, d \in Nodes : lift_children(p, d)
    \/ merge_children_iter
    \/ merge_children_return

SpecTree == TreeInit /\ [][TreeNext]_vars

----------------------------------------------------------------------------
(* Construction.                                                           *)

\* std::make_shared: the new nodes go to the end of the heap, with no
\* children and no parent; args are the const char* each was built from
Alloc(nodes, args) ==
    /\ heap' = heap \o nodes
    /\ children' = children \o [i \in 1..Len(nodes) |-> <<>>]
    /\ parent' = parent \o [i \in 1..Len(nodes) |-> NULL]
    /\ ctor_arg' = ctor_arg \o args

\* the constructor of class op, called with pointer arg, returned node self
Constructed(op, arg, self) ==
    /\ pc' = "idle"
    /\ last' = [NoCall EXCEPT !.op = op, !.arg = arg, !.self = self]
    /\ UNCHANGED call

\* an assertion of the constructor of class op, called with arg, failed
Aborted(op, arg) ==
    /\ pc' = "abort"
    /\ last' = [NoCall EXCEPT !.op = op, !.arg = arg]
    /\ UNCHANGED <<heap, children, parent, call, ctor_arg>>

\* room on the heap for k more nodes
Room(k, cap) == Len(heap) + k <= cap

\* a tolower that takes every code from 'A' on for an upper-case letter
tolower_unbounded(ch) == IF ch >= 65 THEN ch + 32 ELSE ch

\* std::tolower in the "C" locale
tolower(ch) == IF ch >= 65 /\ ch <= 90 THEN ch + 32 ELSE ch

\* std::transform(name.begin(), name.end(), name.begin(), tolower)
transform_tolower(str) == [i \in 1..Len(str) |-> tolower(str[i])]

\* IdentifierNode::IdentifierNode(const char *c)
IdentifierNode(c) ==
    /\ pc = "idle"
    /\ Alloc(<<[NewNode("IdentifierNode") EXCEPT !.name = transform_tolower(c)]>>,
             <<c>>)
    /\ Constructed("IdentifierNode", NULL, Len(heap) + 1)

\* the classes with an implicit public default constructor
DefaultConstructible ==
    {"DummyNode", "LeftValueExprNode", "ArgListNode", "CompoundStmtNode", "StmtList"}

\* make_node<NodeType>() of a default-constructible class
make_node(class) ==
    /\ pc = "idle"
    /\ Alloc(<<NewNode(class)>>, << <<>> >>)
    /\ Constructed(class, NULL, Len(heap) + 1)

\* SimpleTypeNode::SimpleTypeNode(Type type)
SimpleTypeNode(type) ==
    /\ pc = "idle"
    /\ Alloc(<<[NewNode("SimpleTypeNode") EXCEPT !.tag = type]>>, << <<>> >>)
    /\ Constructed("SimpleTypeNode", NULL, Len(heap) + 1)

\* StringTypeNode::StringTypeNode()
StringTypeNode ==
    /\ pc = "idle"
    /\ Alloc(<<[NewNode("StringTypeNode") EXCEPT !.tag = "STRING"]>>, << <<>> >>)
    /\ Constructed("StringTypeNode", NULL, Len(heap) + 1)

\* an erase that strips every leading quote character
erase_leading_quotes(str) ==
    LET RECURSIVE Strip(_)
        Strip(t) == IF t # <<>> /\ t[1] = 34 THEN Strip(Tail(t)) ELSE t
    IN Strip(str)

\* val.erase(val.begin()), defined on a non-empty string
erase_begin(str) == Tail(str)

\* val.pop_back(), defined on a non-empty string
pop_back(str) == SubSeq(str, 1, Len(str) - 1)

\* StringNode::StringNode(const char *val).  ConstValueNode() sets type to
\* nullptr, the body strips the first and the last character and sets type
\* to a new SimpleTypeNode(Type::STRING).  On a token shorter than two
\* characters erase or pop_back is undefined: the construction crashes or
\* leaves an arbitrary string.
StringNode(val) ==
    /\ pc = "idle"
    /\ IF Len(val) >= 2
       THEN /\ Alloc(<<[NewNode("SimpleTypeNode") EXCEPT !.tag = "STRING"],
                       [NewNode("StringNode") EXCEPT
                            !.val = pop_back(erase_begin(val)),
                            !.type = Len(heap) + 1]>>,
                     << <<>>, val >>)
            /\ Constructed("StringNode", NULL, Len(heap) + 2)
       ELSE \/ Aborted("StringNode", NULL)
            \/ \E garbage \in {<<>>, val, <<0>>} :
                  /\ Alloc(<<[NewNode("SimpleTypeNode") EXCEPT !.tag = "STRING"],
                             [NewNode("StringNode") EXCEPT
                                  !.val = garbage, !.type = Len(heap) + 1]>>,
                           << <<>>, val >>)
                  /\ Constructed("StringNode", NULL, Len(heap) + 2)

\* the assertion of the two call wrappers
is_call(ptr) ==
    is_a_ptr_of("RoutineCallNode", ptr) \/ is_a_ptr_of("SysCallNode", ptr)

\* FuncExprNode::FuncExprNode(func_call)
FuncExprNode(func_call) ==
    /\ pc = "idle"
    /\ IF is_call(func_call)
       THEN /\ Alloc(<<[NewNode("FuncExprNode") EXCEPT !.func_call = func_call]>>,
                     << <<>> >>)
            /\ Constructed("FuncExprNode", func_call, Len(heap) + 1)
       ELSE Aborted("FuncExprNode", func_call)

\* ProcStmtNode::ProcStmtNode(proc_call)
ProcStmtNode(proc_call) ==
    /\ pc = "idle"
    /\ IF is_call(proc_call)
       THEN /\ Alloc(<<[NewNode("ProcStmtNode") EXCEPT !.proc_call = proc_call]>>,
                     << <<>> >>)
            /\ Constructed("ProcStmtNode", proc_call, Len(heap) + 1)
       ELSE Aborted("ProcStmtNode", proc_call)

\* SysRoutineNode::SysRoutineNode(SysRoutine routine); WRITELN is the only
\* enumerator
SysRoutineNode ==
    /\ pc = "idle"
    /\ Alloc(<<[NewNode("SysRoutineNode") EXCEPT !.tag = "WRITELN"]>>, << <<>> >>)
    /\ Constructed("SysRoutineNode", NULL, Len(heap) + 1)

\* cast_node<TNode>(node) returns the pointer; otherwise its assertion fails
cast_node_ok(target, ptr) == is_a_ptr_of(target, ptr)

\* SysCallNode::SysCallNode(routine, args): the casts of its two members
SysCallNode_casts(routine, args) ==
    cast_node_ok("SysRoutineNode", routine) /\ cast_node_ok("ArgListNode", args)

\* SysCallNode::SysCallNode(routine, args)
SysCallNode(routine, args) ==
    /\ pc = "idle"
    /\ IF SysCallNode_casts(routine, args)
       THEN /\ Alloc(<<[NewNode("SysCallNode") EXCEPT
                            !.routine = routine, !.args = args]>>, << <<>> >>)
            /\ Constructed("SysCallNode", routine, Len(heap) + 1)
       ELSE Aborted("SysCallNode", routine)

\* SysCallNode::SysCallNode(routine): make_node<ArgListNode>(), then the
\* two-argument constructor
SysCallNode1(routine) ==
    /\ pc = "idle"
    /\ IF cast_node_ok("SysRoutineNode", routine)
       THEN /\ Alloc(<<NewNode("ArgListNode"),
                       [NewNode("SysCallNode") EXCEPT
                            !.routine = routine, !.args = Len(heap) + 1]>>,
                     << <<>>, <<>> >>)
            /\ Constructed("SysCallNode", routine, Len(heap) + 2)
       ELSE Aborted("SysCallNode", routine)

\* RoutineCallNode::RoutineCallNode(identifier, args)
RoutineCallNode(identifier, args) ==
    /\ pc = "idle"
    /\ IF cast_node_ok("IdentifierNode", identifier)
            /\ cast_node_ok("ArgListNode", args)
       THEN /\ Alloc(<<[NewNode("RoutineCallNode") EXCEPT
                            !.identifier = identifier, !.args = args]>>,
                     << <<>> >>)
            /\ Constructed("RoutineCallNode", identifier, Len(heap) + 1)
       ELSE Aborted("RoutineCallNode", identifier)

\* RoutineCallNode::RoutineCallNode(identifier): make_node<ArgListNode>(),
\* then the two-argument constructor
RoutineCallNode1(identifier) ==
    /\ pc = "idle"
    /\ IF cast_node_ok("IdentifierNode", identifier)
       THEN /\ Alloc(<<NewNode("ArgListNode"),
                       [NewNode("RoutineCallNode") EXCEPT
                            !.identifier = identifier, !.args = Len(heap) + 1]>>,
                     << <<>>, <<>> >>)
            /\ Constructed("RoutineCallNode", identifier, Len(heap) + 2)
       ELSE Aborted("RoutineCallNode", identifier)

\* RoutineNode::RoutineNode(name), and ProgramNode's inherited constructor
RoutineNode(class, name) ==
    /\ pc = "idle"
    /\ IF cast_node_ok("IdentifierNode", name)
       THEN /\ Alloc(<<[NewNode(class) EXCEPT !.rname = name]>>, << <<>> >>)
            /\ Constructed(class, name, Len(heap) + 1)
       ELSE Aborted(class, name)

----------------------------------------------------------------------------
(* The constructors of every class, on pointers to the nodes built so far. *)

EmptyInit ==
    /\ heap = <<>>
    /\ children = <<>>
    /\ parent = <<>>
    /\ pc = "idle"
    /\ call = NoCall
    /\ last = NoCall
    /\ ctor_arg = <<>>

\* the tokens "Xy" and "\"hi\""
CtorTokens == {<<88, 121>>, <<34, 104, 105, 34>>}

Pointers == Nodes \cup {NULL}

CtorNext ==
    \/ \E c \in CtorTokens : Room(1, MaxNodes) /\ IdentifierNode(c)
    \/ \E c \in CtorTokens : Room(2, MaxNodes) /\ StringNode(c)
    \/ \E class \in DefaultConstructible : Room(1, MaxNodes) /\ make_node(class)
    \/ \E t \in {"UNDEFINED", "STRING"} : Room(1, MaxNodes) /\ SimpleTypeNode(t)
    \/ Room(1, MaxNodes) /\ StringTypeNode
    \/ Room(1, MaxNodes) /\ SysRoutineNode
    \/ \E f \in Pointers : Room(1, MaxNodes) /\ FuncExprNode(f)
    \/ \E f \in Pointers : Room(1, MaxNodes) /\ ProcStmtNode(f)
    \/ \E r \in Pointers, a \in Pointers : Room(1, MaxNodes) /\ SysCallNode(r, a)
    \/ \E r \in Pointers : Room(2, MaxNodes) /\ SysCallNode1(r)
    \/ \E i \in Pointers, a \in Pointers : Room(1, MaxNodes) /\ RoutineCallNode(i, a)
    \/ \E i \in Pointers : Room(2, MaxNodes) /\ RoutineCallNode1(i)
    \/ \E class \in {"RoutineNode", "ProgramNode"}, i \in Pointers :
           Room(1, MaxNodes) /\ RoutineNode(class, i)

SpecCtor == EmptyInit /\ [][CtorNext]_vars

----------------------------------------------------------------------------
(* The lexical constructors on every short token.                          *)

\* every string of at most n characters of the alphabet
Strings(alphabet, n) == UNION {[1..k -> alphabet] : k \in 0..n}

\* 'A', 'Z', '[', 'a'
IdentAlphabet == {65, 90, 91, 97}

IdentTokens == Strings(IdentAlphabet, MaxTok)

IdentNext ==
    \/ \E c \in IdentTokens : Room(1, MaxLexNodes) /\ IdentifierNode(c)
    \/ \E n \in Nodes : Room(1, MaxLexNodes) /\ IdentifierNode(heap[n].name)

SpecIdent == EmptyInit /\ [][IdentNext]_vars

\* '"', 'h', 'i'
StringAlphabet == {34, 104, 105}

\* the token "hello" with its quotes
HelloToken == <<34, 104, 101, 108, 108, 111, 34>>

StringTokens == Strings(StringAlphabet, MaxStrTok) \cup {HelloToken}

StringNext ==
    \E c \in StringTokens : Room(2, MaxLexNodes) /\ StringNode(c)

SpecString == EmptyInit /\ [][StringNext]_vars

----------------------------------------------------------------------------
(* Properties of the composition operations.                               *)

Kids(n) == {children[n][i] : i \in 1..Len(children[n])}

RECURSIVE ReachFrom(_, _)
ReachFrom(S, k) ==
    IF k = 0 THEN S ELSE ReachFrom(S \cup UNION {Kids(n) : n \in S}, k - 1)

\* the nodes reachable from n through child sequences
Descendants(n) == ReachFrom(Kids(n), Len(heap))

Acyclic == \A n \in Nodes : n \notin Descendants(n)

SingleParent ==
    \A p \in Nodes, q \in Nodes :
        \A i \in 1..Len(children[p]), j \in 1..Len(children[q]) :
            children[p][i] = children[q][j] => (p = q /\ i = j)

\* C1: after any sequence of add_child, merge_children and lift_children
\* calls the structure is a tree: no node is reachable from itself, and no
\* node occurs in two child sequences or twice in one.
C1_Tree == pc = "idle" => (Acyclic /\ SingleParent)

\* C2: after lift_children(p, d) with a composite donor d other than p, d's
\* child sequence is empty and p's is its former child sequence followed by
\* d's former children in their order.
C2_LiftTransfers ==
    (pc = "idle" /\ last.op = "lift_children" /\ last.arg # last.self)
        => /\ children[last.arg] = <<>>
           /\ children[last.self] = last.c0 \o last.s0

\* C3: after merge_children(p, C) on a composite p, reading p's children
\* yields p's former children followed by C, element for element in the
\* same order; exactly C when p had no children.
C3_MergeOrder ==
    (pc = "idle" /\ last.op = "merge_children"
        /\ should_have_children(heap[last.self].class))
        => /\ Len(children_of(last.self)) = Len(last.c0) + Len(last.s0)
           /\ \A i \in 1..Len(last.c0) : children_of(last.self)[i] = last.c0[i]
           /\ \A i \in 1..Len(last.s0) :
                  children_of(last.self)[Len(last.c0) + i] = last.s0[i]
           /\ (last.c0 = <<>> => children_of(last.self) = last.s0)

C3_Witness ==
    /\ pc = "idle"
    /\ last.op = "merge_children"
    /\ should_have_children(heap[last.self].class)
    /\ last.c0 = <<>>
    /\ Len(last.s0) = 2
    /\ last.s0[1] # last.s0[2]

\* C4: attaching a child to a node whose class is a leaf fails, so that
\* every leaf-class node has an empty child sequence in every reachable state.
C4_LeafHasNoChildren ==
    \A n \in Nodes :
        ~should_have_children(heap[n].class) => children[n] = <<>>

\* C9: add_child(p, c) appends c to p's child sequence and sets c's parent
\* to p; the earlier children of p keep their order, and the child sequence
\* and the parent of every other node are unchanged.
C9_AddChildFrame ==
    [][(pc = "idle" /\ pc' = "idle" /\ last'.op = "add_child") =>
          LET p == last'.self
              c == last'.arg
          IN /\ children'[p] = children[p] \o <<c>>
             /\ parent'[c] = p
             /\ \A n \in Nodes \ {p} : children'[n] = children[n]
             /\ \A n \in Nodes \ {c} : parent'[n] = parent[n]
             /\ heap' = heap]_vars

C9_Witness ==
    /\ pc = "idle"
    /\ last.op = "add_child"
    /\ last.c0 # <<>>
    /\ \E q \in Nodes \ {last.self} : last.arg \in Kids(q)

\* C10: every merge_children and lift_children call returns after attaching
\* exactly as many children as the sequence held when the call started, also
\* when the sequence is the parent's own child sequence.
C10_AttachesStartLength ==
    /\ pc = "loop" => call.cnt <= Len(call.s0)
    /\ (pc = "idle" /\ last.op \in {"merge_children", "lift_children"})
           => last.cnt = Len(last.s0)

----------------------------------------------------------------------------
(* Properties of the constructors.                                         *)

Wrappers == {"FuncExprNode", "ProcStmtNode"}

\* the node a call wrapper wraps
Wrapped(n) ==
    IF heap[n].class = "FuncExprNode" THEN heap[n].func_call
    ELSE heap[n].proc_call

\* ptr points to a node whose class is exactly one of the two call classes
PointsToCall(ptr) ==
    ptr \in Nodes /\ heap[ptr].class \in {"RoutineCallNode", "SysCallNode"}

\* C5: constructing a FuncExprNode or a ProcStmtNode around a node that is
\* neither a RoutineCallNode nor a SysCallNode (a null pointer included)
\* fails and creates no node, so every FuncExprNode and ProcStmtNode that
\* exists wraps a RoutineCallNode or a SysCallNode.
C5_WrapperRejects ==
    /\ (last.op \in Wrappers /\ ~PointsToCall(last.arg))
           => (pc = "abort" /\ last.self = NULL)
    /\ \A n \in Nodes : heap[n].class \in Wrappers => PointsToCall(Wrapped(n))

C5_Witness ==
    /\ pc = "abort"
    /\ last.op = "ProcStmtNode"
    /\ last.arg \in Nodes
    /\ heap[last.arg].class = "ArgListNode"
    /\ \E n \in Nodes : heap[n].class = "RoutineCallNode" /\ heap[n].args = last.arg

\* C6: after construction the type descriptor of an expression node is
\* absent only if the node is a FuncExprNode; every StringNode and every
\* IdentifierNode carries a type descriptor.
C6_TypePresent ==
    \A n \in Nodes :
        (DerivesFrom(heap[n].class, "ExprNode") /\ heap[n].type = NULL)
            => heap[n].class = "FuncExprNode"

\* t is a raw quoted token: it starts and ends with a quote character
Quoted(t) == Len(t) >= 2 /\ t[1] = 34 /\ t[Len(t)] = 34

\* C7: a StringNode built from a raw quoted token stores the token without
\* its first and its last character and otherwise unchanged: "hello" with
\* its quotes gives hello, and the two-character token "" gives the empty
\* string.
C7_StringDecoding ==
    \A n \in Nodes :
        (heap[n].class = "StringNode" /\ Quoted(ctor_arg[n])) =>
            LET t == ctor_arg[n]
                v == heap[n].val
            IN /\ Len(v) = Len(t) - 2
               /\ \A i \in 1..Len(v) : v[i] = t[i + 1]
               /\ (t = <<34, 34>> => v = <<>>)
               /\ (t = HelloToken => v = <<104, 101, 108, 108, 111>>)

C7_Witness ==
    \E n \in Nodes :
        /\ heap[n].class = "StringNode"
        /\ ctor_arg[n] = HelloToken
        /\ heap[n].val = <<104, 101, 108, 108, 111>>

IsUpper(ch) == ch \in 65..90

\* a and b are the same character up to letter case
SameLetter(a, b) ==
    \/ a = b
    \/ (IsUpper(a) /\ b = a + 32)
    \/ (IsUpper(b) /\ a = b + 32)

\* s and t differ at most in letter case
SameIgnoringCase(s, t) ==
    Len(s) = Len(t) /\ \A i \in 1..Len(s) : SameLetter(s[i], t[i])

Identifiers == {n \in Nodes : heap[n].class = "IdentifierNode"}

\* C8: an IdentifierNode's name is the all-lowercase form of its input, of
\* the same length and lowercased character by character; two identifiers
\* whose inputs differ only in letter case have equal names; an identifier
\* built from an already normalized name has that name.
C8_CaseNormalization ==
    /\ \A n \in Identifiers :
          /\ Len(heap[n].name) = Len(ctor_arg[n])
          /\ \A i \in 1..Len(ctor_arg[n]) :
                /\ ~IsUpper(heap[n].name[i])
                /\ SameLetter(heap[n].name[i], ctor_arg[n][i])
    /\ \A n \in Identifiers, m \in Identifiers :
          /\ SameIgnoringCase(ctor_arg[n], ctor_arg[m])
                => heap[n].name = heap[m].name
          /\ ctor_arg[m] = heap[n].name => heap[m].name = heap[n].name

C8_Witness ==
    \E n \in Identifiers, m \in Identifiers :
        /\ ctor_arg[n] = <<65, 90>>
        /\ ctor_arg[m] = <<97, 90>>
        /\ heap[n].name = <<97, 122>>
        /\ heap[m].name = heap[n].name

====
